---------------------------- MODULE Spec2Model ----------------------------
(***************************************************************************)
(* A model of common_util.py: the filesystem helpers (createDir,           *)
(* writeToFile, prepareDestinationDirectory and what they call), the       *)
(* memoize decorator and calcLineNum.                                      *)
(*                                                                         *)
(* A string is a sequence of one-character strings, so that slicing,       *)
(* joining and word splitting are computed as the code computes them.      *)
(* The filesystem is a function from component paths (sequences of names)  *)
(* to "DIR" or to the content of a regular file.                           *)
(***************************************************************************)
EXTENDS Integers, Sequences, FiniteSets, TLC

VARIABLES
  fs,        \* the filesystem: [component path -> "DIR" or file content]
  hist,      \* the calls of prepareDestinationDirectory made so far
  cd,        \* the last call of createDir, with what it returned
  cache,     \* memoize: the wrapper's cache, [key -> value]
  mlog,      \* memoize: the calls made to the wrapper so far
  lastStr,   \* calcLineNum: module global lastStr
  lastPos,   \* calcLineNum: module global lastPos
  lastLineCount, \* calcLineNum: module global lastLineCount
  llog       \* calcLineNum: the calls made so far

vars == <<fs, hist, cd, cache, mlog, lastStr, lastPos, lastLineCount, llog>>

fsVars == <<fs, hist, cd>>
memoVars == <<cache, mlog>>
lineVars == <<lastStr, lastPos, lastLineCount, llog>>

---------------------------------------------------------------------------
(* Bounds of the model *)

\* the filesystem holds at most this many nodes (the root included) before a merge
MaxNodes == 6
\* the same, where the calls of createDir are the subject
MaxDirNodes == 3
\* the strings given to calcLineNum have at most this many characters
MaxStrLen == 2
\* the memoized wrapper is called at most this many times
MaxCalls == 3
\* calcLineNum is called at most this many times
MaxLineCalls == 3

---------------------------------------------------------------------------
(* Strings and paths (os.path, posix flavour) *)

SEP == "/"
SPACE == " "
DIR == "DIR"
None == <<"None">>

\* s[n:]
Slice(s, n) == SubSeq(s, n + 1, Len(s))

\* s[:n]
Take(s, n) == SubSeq(s, 1, n)

\* osp.isabs
IsAbs(p) == Len(p) > 0 /\ p[1] = SEP

\* osp.join(a, b)
Join(a, b) ==
  IF IsAbs(b) THEN b
  ELSE IF a = <<>> \/ a[Len(a)] = SEP THEN a \o b
  ELSE a \o <<SEP>> \o b

\* s.rfind(c) + 1: the length of the prefix of s that ends with the last c
RECURSIVE RFind1(_, _)
RFind1(s, c) ==
  IF s = <<>> THEN 0
  ELSE IF s[Len(s)] = c THEN Len(s)
  ELSE RFind1(Take(s, Len(s) - 1), c)

\* s.rstrip(c)
RECURSIVE RStrip(_, _)
RStrip(s, c) ==
  IF s # <<>> /\ s[Len(s)] = c THEN RStrip(Take(s, Len(s) - 1), c) ELSE s

\* head.rstrip("/") unless head is empty or all separators
DirnameOf(head, stripped) == IF head # <<>> /\ stripped # <<>> THEN stripped ELSE head

DirnameHead(head) == DirnameOf(head, RStrip(head, SEP))

\* osp.dirname
Dirname(p) == DirnameHead(Take(p, RFind1(p, SEP)))

\* the length of the first word of s, which does not start with c
WordLen(s, c) ==
  CHOOSE k \in 1..Len(s) : (\A j \in 1..k : s[j] # c) /\ (k = Len(s) \/ s[k + 1] = c)

RECURSIVE Split(_, _)
SplitAt(s, c, i) == <<Take(s, i)>> \o Split(Slice(s, i), c)

\* s.split(c) without the empty words: the components of a path (c = "/"),
\* the words of a shell command line (c = " ")
Split(s, c) ==
  IF s = <<>> THEN <<>>
  ELSE IF s[1] = c THEN Split(Slice(s, 1), c)
  ELSE SplitAt(s, c, WordLen(s, c))

\* the working directory of the process, os.getcwd()
Cwd == <<SEP>>

\* how the kernel resolves a path string: the sequence of its names
Resolve(p) == Split(IF IsAbs(p) THEN p ELSE Cwd \o <<SEP>> \o p, SEP)

TrailingSep(p) == p # <<>> /\ p[Len(p)] = SEP

Parent(r) == Take(r, Len(r) - 1)

IsPrefix(q, r) == Len(q) <= Len(r) /\ Take(r, Len(q)) = q

IsDirAt(f, r) == r \in DOMAIN f /\ f[r] = DIR

IsFileAt(f, r) == r \in DOMAIN f /\ f[r] # DIR

ExistsAt(f, p, r) == p # <<>> /\ r \in DOMAIN f /\ (TrailingSep(p) => f[r] = DIR)

\* osp.exists
Exists(f, p) == ExistsAt(f, p, Resolve(p))

\* f with node r set to v
Put(f, r, v) == [q \in DOMAIN f \cup {r} |-> IF q = r THEN v ELSE f[q]]

\* an outcome of an OS operation: the filesystem it leaves, and whether it succeeded
Outcome(f, ok) == [fs |-> f, ok |-> ok]

\* the outcome of two operations in sequence
Both(one, rest) == [fs |-> rest.fs, ok |-> one.ok /\ rest.ok]

---------------------------------------------------------------------------
(* The operating system: directory listing, makedirs, open/write, cp -r *)

\* the characters a name is made of, in collating order
Alphabet == <<" ", "a", "b", "d", "s">>

CharRank(c) == CHOOSE i \in 1..Len(Alphabet) : Alphabet[i] = c

RECURSIVE NameLess(_, _)
NameLess(m, n) ==
  IF n = <<>> THEN FALSE
  ELSE IF m = <<>> THEN TRUE
  ELSE IF m[1] # n[1] THEN CharRank(m[1]) < CharRank(n[1])
  ELSE NameLess(Tail(m), Tail(n))

Least(S) == CHOOSE m \in S : \A n \in S \ {m} : NameLess(m, n)

RECURSIVE SortNames(_)
SortFrom(S, least) == <<least>> \o SortNames(S \ {least})

SortNames(S) == IF S = {} THEN <<>> ELSE SortFrom(S, Least(S))

Reverse(s) == [i \in 1..Len(s) |-> s[Len(s) + 1 - i]]

ChildNames(f, r) == {q[Len(q)] : q \in {x \in DOMAIN f : Len(x) = Len(r) + 1 /\ IsPrefix(r, x)}}

Ordered(names, reverse) == IF reverse THEN Reverse(names) ELSE names

\* os.listdir / os.scandir of directory r: the names, in the order the OS gives
\* them (reverse: the order is the filesystem's, not the caller's)
Listing(f, r, reverse) == Ordered(SortNames(ChildNames(f, r)), reverse)

Prefixes(r) == {Take(r, k) : k \in 0..Len(r)}

\* f with every missing directory of Q made
WithDirs(f, Q) == [q \in DOMAIN f \cup Q |-> IF q \in DOMAIN f THEN f[q] ELSE DIR]

MakedirsAt(f, r, existOk, denied) ==
  IF r \in DOMAIN f THEN Outcome(f, existOk /\ f[r] = DIR)
  ELSE IF \E q \in Prefixes(r) : IsFileAt(f, q) THEN Outcome(f, FALSE)
  ELSE IF denied THEN Outcome(f, FALSE)
  ELSE Outcome(WithDirs(f, Prefixes(r)), TRUE)

\* os.makedirs(p, exist_ok=existOk); denied: the OS refuses the creation
\* (permissions, read-only filesystem).  ok = FALSE: it raised.
Makedirs(f, p, existOk, denied) == MakedirsAt(f, Resolve(p), existOk, denied)

OpenWriteAt(f, p, r, content) ==
  IF TrailingSep(p) \/ r = <<>> \/ IsDirAt(f, r) THEN Outcome(f, FALSE)
  ELSE IF r \notin DOMAIN f /\ ~IsDirAt(f, Parent(r)) THEN Outcome(f, FALSE)
  ELSE Outcome(Put(f, r, content), TRUE)

\* open(p, "w") then write(content); ok = FALSE: open raised
OpenWrite(f, p, content) == OpenWriteAt(f, p, Resolve(p), content)

RECURSIVE CopyNode(_, _, _, _)
RECURSIVE CopyKids(_, _, _, _, _)

\* cp -r of the node at s onto the target path t (component paths)
CopyNode(f, s, t, reverse) ==
  IF s \notin DOMAIN f \/ s = <<>> \/ t = <<>> THEN Outcome(f, FALSE)
  ELSE IF IsPrefix(s, t) THEN Outcome(f, FALSE)
  ELSE IF t \in DOMAIN f /\ (f[t] = DIR) # (f[s] = DIR) THEN Outcome(f, FALSE)
  ELSE IF t \notin DOMAIN f /\ ~IsDirAt(f, Parent(t)) THEN Outcome(f, FALSE)
  ELSE IF f[s] # DIR THEN Outcome(Put(f, t, f[s]), TRUE)
  ELSE CopyKids(Put(f, t, DIR), s, t, Listing(f, s, reverse), reverse)

KidsAfter(one, s, t, kids, reverse) == Both(one, CopyKids(one.fs, s, t, Tail(kids), reverse))

CopyKids(f, s, t, kids, reverse) ==
  IF kids = <<>> THEN Outcome(f, TRUE)
  ELSE KidsAfter(CopyNode(f, Append(s, Head(kids)), Append(t, Head(kids)), reverse),
                 s, t, kids, reverse)

SrcOkAt(f, p, r) == r \in DOMAIN f /\ r # <<>> /\ (TrailingSep(p) => f[r] = DIR)

\* a source operand of cp that names something
SrcOk(f, p) == SrcOkAt(f, p, Resolve(p))

\* one source operand copied to DIR/basename(SRC)
CopyOneInto(f, p, s, d, reverse) ==
  IF SrcOkAt(f, p, s) THEN CopyNode(f, s, Append(d, s[Len(s)]), reverse) ELSE Outcome(f, FALSE)

RECURSIVE CopyInto(_, _, _, _)
IntoAfter(one, srcs, d, reverse) == Both(one, CopyInto(one.fs, Tail(srcs), d, reverse))

\* cp -r SRC... DIR: each source is copied to DIR/basename(SRC)
CopyInto(f, srcs, d, reverse) ==
  IF srcs = <<>> THEN Outcome(f, TRUE)
  ELSE IntoAfter(CopyOneInto(f, Head(srcs), Resolve(Head(srcs)), d, reverse), srcs, d, reverse)

\* cp -r SRC DST where DST is no directory
CopyOnto(f, src, srcR, dst, dstR, reverse) ==
  IF ~SrcOkAt(f, src, srcR) THEN Outcome(f, FALSE)
  ELSE IF TrailingSep(dst) /\ IsFileAt(f, srcR) THEN Outcome(f, FALSE)
  ELSE CopyNode(f, srcR, dstR, reverse)

CpTo(f, srcs, dst, dstR, reverse) ==
  IF IsDirAt(f, dstR) THEN CopyInto(f, srcs, dstR, reverse)
  ELSE IF Len(srcs) > 1 THEN Outcome(f, FALSE)
  ELSE CopyOnto(f, srcs[1], Resolve(srcs[1]), dst, dstR, reverse)

\* GNU cp -r with the operands args; ok: the exit status is 0
Cp(f, args, reverse) ==
  IF Len(args) < 2 THEN Outcome(f, FALSE)
  ELSE CpTo(f, Take(args, Len(args) - 1), args[Len(args)], Resolve(args[Len(args)]), reverse)

\* subp.run(f"cp -r {a} {b}", shell=True): the shell splits the line into
\* words at the spaces; run does not raise on a non-zero exit status
ShellCp(f, a, b, reverse) == Cp(f, Split(a \o <<SPACE>> \o b, SPACE), reverse)

---------------------------------------------------------------------------
(* common_util.py: the filesystem helpers *)

\* getAbolutePath(filePath)
getAbolutePath(filePath) == IF IsAbs(filePath) THEN filePath ELSE Join(Cwd, filePath)

\* createDir without the except clause: a failure of makedirs leaves the function
CreateDirNoCatch(absPath, made) ==
  [fs |-> made.fs, ret |-> IF made.ok THEN absPath ELSE None, raised |-> ~made.ok]

\* the try/except of createDir: a failure is logged and None returned
CreateDirResult(absPath, made) ==
  [fs |-> made.fs, ret |-> IF made.ok THEN absPath ELSE None, raised |-> FALSE]

CreateDirAbs(f, absPath, existOk, denied) ==
  CreateDirResult(absPath, Makedirs(f, absPath, existOk, denied))

\* createDir(dirPath, existOk): ret is the absolute path or None; raised says
\* whether an exception left the function
createDir(f, dirPath, existOk, denied) ==
  CreateDirAbs(f, getAbolutePath(dirPath), existOk, denied)

WriteResult(w) == [fs |-> w.fs, raised |-> ~w.ok]

\* writeToFile(fileName, content)
writeToFile(f, fileName, content) == WriteResult(OpenWrite(f, fileName, content))

RECURSIVE Flatten(_)
Flatten(ss) == IF ss = <<>> THEN <<>> ELSE Head(ss) \o Flatten(Tail(ss))

JoinEach(root, names) == [i \in 1..Len(names) |-> Join(root, names[i])]

\* the names of the listing that are directories (wantDirs) or are not
Pick(f, r, names, wantDirs) ==
  LET Wanted(n) == (f[Append(r, n)] = DIR) = wantDirs
  IN SelectSeq(names, Wanted)

RECURSIVE Walk(_, _, _)
WalkDirs(f, root, dirs, files, reverse) ==
  JoinEach(root, dirs) \o JoinEach(root, files)
    \o Flatten([i \in 1..Len(dirs) |-> Walk(f, Join(root, dirs[i]), reverse)])

WalkNames(f, root, r, names, reverse) ==
  WalkDirs(f, root, Pick(f, r, names, TRUE), Pick(f, r, names, FALSE), reverse)

WalkAt(f, root, r, reverse) == WalkNames(f, root, r, Listing(f, r, reverse), reverse)

\* os.walk(root), top down, as getAllFilePaths consumes it: for each directory
\* its subdirectories, then its files, then the same for each subdirectory
Walk(f, root, reverse) == WalkAt(f, root, Resolve(root), reverse)

\* getAllFilePaths(directory): os.walk ignores a top it cannot list
getAllFilePaths(f, directory, reverse) ==
  IF IsDirAt(f, Resolve(directory)) THEN Walk(f, directory, reverse) ELSE <<>>

IsEmptyDirAt(f, r) == [raised |-> ~IsDirAt(f, r), empty |-> ChildNames(f, r) = {}]

\* isEmptyDir(directory): os.listdir raises when it is no directory
isEmptyDir(f, directory) == IsEmptyDirAt(f, Resolve(directory))

\* copyFile(filePath, destDir)
copyFile(f, filePath, destDir, reverse) == ShellCp(f, filePath, destDir, reverse)

RECURSIVE CopyEach(_, _, _, _, _)
EachAfter(one, srcDir, names, destDir, reverse) ==
  Both(one, CopyEach(one.fs, srcDir, Tail(names), destDir, reverse))

\* the loop of copyDirectoryContents over filePathList
CopyEach(f, srcDir, names, destDir, reverse) ==
  IF names = <<>> THEN Outcome(f, TRUE)
  ELSE EachAfter(ShellCp(f, Join(srcDir, Head(names)), destDir, reverse),
                 srcDir, names, destDir, reverse)

\* what a merge reports: raised: an exception reached the caller; failed: some
\* cp exited non-zero; mode: the branch taken
Report(f, raised, failed, mode) == [fs |-> f, raised |-> raised, failed |-> failed, mode |-> mode]

BulkReport(c) == Report(c.fs, FALSE, ~c.ok, "bulk")

\* copyDirectoryContents(srcDir, destDir): os.listdir raises when srcDir is no directory
copyDirectoryContents(f, srcDir, destDir, reverse) ==
  IF ~IsDirAt(f, Resolve(srcDir)) THEN Report(f, TRUE, FALSE, "bulk")
  ELSE BulkReport(CopyEach(f, srcDir, Listing(f, Resolve(srcDir), reverse), destDir, reverse))

\* relFilePath = absSrcFilePath[prefixLen:] with prefixLen = len(absSrcDirPath) + 1
RelFilePath(absSrcDirPath, absSrcFilePath) == Slice(absSrcFilePath, Len(absSrcDirPath) + 1)

\* if not osp.exists(absFilePath): copyFile(absSrcFilePath, absDirPath)
CopyIfMissing(f, absSrcFilePath, absFilePath, absDirPath, reverse) ==
  IF ~Exists(f, absFilePath) THEN copyFile(f, absSrcFilePath, absDirPath, reverse)
  ELSE Outcome(f, TRUE)

\* if not osp.exists(absDirPath): createDir(absDestDirPath)
EnsureDir(f, absDirPath, absDestDirPath, denied) ==
  IF ~Exists(f, absDirPath) THEN createDir(f, absDestDirPath, TRUE, denied).fs ELSE f

StepResult(st, c) == [fs |-> c.fs, failed |-> st.failed \/ ~c.ok]

StepPaths(st, absDestDirPath, absSrcFilePath, relFilePath, relDirPath, denied, reverse) ==
  StepResult(st, CopyIfMissing(
    EnsureDir(st.fs, Join(absDestDirPath, relDirPath), absDestDirPath, denied),
    absSrcFilePath, Join(absDestDirPath, relFilePath), Join(absDestDirPath, relDirPath),
    reverse))

StepRel(st, absDestDirPath, absSrcFilePath, relFilePath, denied, reverse) ==
  StepPaths(st, absDestDirPath, absSrcFilePath, relFilePath, Dirname(relFilePath), denied, reverse)

\* one turn of the loop of the selective merge (STEP 3.2)
SelectiveStep(st, absSrcDirPath, absDestDirPath, absSrcFilePath, denied, reverse) ==
  StepRel(st, absDestDirPath, absSrcFilePath, RelFilePath(absSrcDirPath, absSrcFilePath),
          denied, reverse)

RECURSIVE SelectiveMerge(_, _, _, _, _, _)
\* the loop of the selective merge over the paths getAllFilePaths yields
SelectiveMerge(st, absSrcDirPath, absDestDirPath, paths, denied, reverse) ==
  IF paths = <<>> THEN st
  ELSE SelectiveMerge(
         SelectiveStep(st, absSrcDirPath, absDestDirPath, Head(paths), denied, reverse),
         absSrcDirPath, absDestDirPath, Tail(paths), denied, reverse)

SelectiveReport(m) == Report(m.fs, FALSE, m.failed, "selective")

\* STEP 2 and 3 of prepareDestinationDirectory
MergeInto(f1, e, absSrcDirPath, absDestDirPath, denied, reverse) ==
  IF e.raised THEN Report(f1, TRUE, FALSE, "none")
  ELSE IF e.empty THEN copyDirectoryContents(f1, absSrcDirPath, absDestDirPath, reverse)
  ELSE SelectiveReport(
         SelectiveMerge([fs |-> f1, failed |-> FALSE], absSrcDirPath, absDestDirPath,
                        getAllFilePaths(f1, absSrcDirPath, reverse), denied, reverse))

MergeCreated(f1, absSrcDirPath, absDestDirPath, denied, reverse) ==
  MergeInto(f1, isEmptyDir(f1, absDestDirPath), absSrcDirPath, absDestDirPath, denied, reverse)

MergeAbs(f, absSrcDirPath, absDestDirPath, denied, reverse) ==
  MergeCreated(createDir(f, absDestDirPath, TRUE, denied).fs,
               absSrcDirPath, absDestDirPath, denied, reverse)

\* prepareDestinationDirectory(srcDirPath, destDirPath)
prepareDestinationDirectory(f, srcDirPath, destDirPath, denied, reverse) ==
  MergeAbs(f, getAbolutePath(srcDirPath), getAbolutePath(destDirPath), denied, reverse)

---------------------------------------------------------------------------
(* The filesystem state machine: a caller builds trees with createDir and  *)
(* writeToFile, then merges the source tree into the destination, twice.   *)

SrcRoot == <<"s">>
DstRoot == <<"d">>
Names == {<<"a">>, <<"a", "b">>, <<"a", " ", "b">>}
SrcContents == {"x", "y"}
DstContents == {"z"}

PathsUnder(root) ==
  {<<SEP>> \o root \o <<SEP>> \o n : n \in Names}
    \cup {<<SEP>> \o root \o <<SEP>> \o n \o <<SEP>> \o m : n \in Names, m \in Names}

\* the paths the caller passes to createDir and writeToFile
TreePaths == PathsUnder(SrcRoot) \cup PathsUnder(DstRoot)

DirPaths == TreePaths \cup {SrcRoot, DstRoot}

\* the spellings of the source and of the destination directory in a call:
\* relative or absolute, with or without a trailing separator
Spellings ==
  {<<SrcRoot, DstRoot>>,
   <<<<SEP>> \o SrcRoot, <<SEP>> \o DstRoot>>,
   <<SrcRoot \o <<SEP>>, DstRoot>>,
   <<<<SEP>> \o SrcRoot \o <<SEP>>, <<SEP>> \o DstRoot \o <<SEP>>>>}

\* The order of a listing shows only where some directory holds two entries.
Orders(f) ==
  IF \E r \in DOMAIN f : r # <<>> /\ Cardinality(ChildNames(f, r)) > 1
  THEN BOOLEAN ELSE {FALSE}

\* The OS can refuse a creation only where there is something to create.
Refusals(f, dirPath) ==
  IF Resolve(getAbolutePath(dirPath)) \in DOMAIN f THEN {FALSE} ELSE BOOLEAN

NoCall == [called |-> FALSE]

FsIdle == fs = [r \in {<<>>} |-> DIR] /\ hist = <<>> /\ cd = NoCall
MemoIdle == cache = <<>> /\ mlog = <<>>
LineIdle == lastStr = <<>> /\ lastPos = 0 /\ lastLineCount = 0 /\ llog = <<>>

\* a filesystem the caller has built, within the bound
Built(f, raised, bound) == ~raised /\ Cardinality(DOMAIN f) <= bound

\* createDir(dirPath), by a caller that builds the trees
CreateDirCall ==
  /\ hist = <<>>
  /\ \E dirPath \in DirPaths :
       /\ Built(createDir(fs, dirPath, TRUE, FALSE).fs, FALSE, MaxNodes)
       /\ fs' = createDir(fs, dirPath, TRUE, FALSE).fs
  /\ UNCHANGED <<hist, cd, memoVars, lineVars>>

\* writeToFile(fileName, content), by a caller that builds the trees
WriteToFileCall ==
  /\ hist = <<>>
  /\ \E fileName \in PathsUnder(SrcRoot), content \in SrcContents :
       /\ Built(writeToFile(fs, fileName, content).fs,
                writeToFile(fs, fileName, content).raised, MaxNodes)
       /\ fs' = writeToFile(fs, fileName, content).fs
  /\ UNCHANGED <<hist, cd, memoVars, lineVars>>

\* the same, for the files the destination holds before the merge
WriteToDestCall ==
  /\ hist = <<>>
  /\ \E fileName \in PathsUnder(DstRoot), content \in DstContents :
       /\ Built(writeToFile(fs, fileName, content).fs,
                writeToFile(fs, fileName, content).raised, MaxNodes)
       /\ fs' = writeToFile(fs, fileName, content).fs
  /\ UNCHANGED <<hist, cd, memoVars, lineVars>>

\* the record of a call of prepareDestinationDirectory
Recorded(src, dst, denied, reverse, before, m) ==
  [src |-> src, dst |-> dst, denied |-> denied, reverse |-> reverse,
   before |-> before, after |-> m.fs,
   raised |-> m.raised, failed |-> m.failed, mode |-> m.mode]

MergeRecord(src, dst, denied, reverse) ==
  Recorded(src, dst, denied, reverse, fs,
           prepareDestinationDirectory(fs, src, dst, denied, reverse))

Merged(h) == hist' = Append(hist, h) /\ fs' = h.after

\* prepareDestinationDirectory(src, dst)
MergeCall ==
  /\ hist = <<>>
  /\ \E sp \in Spellings :
      \E denied \in Refusals(fs, sp[2]), reverse \in Orders(fs) :
        Merged(MergeRecord(sp[1], sp[2], denied, reverse))
  /\ UNCHANGED <<cd, memoVars, lineVars>>

\* the same call once more, right after the first
MergeAgainCall ==
  /\ Len(hist) = 1
  /\ Merged(MergeRecord(hist[1].src, hist[1].dst, hist[1].denied, hist[1].reverse))
  /\ UNCHANGED <<cd, memoVars, lineVars>>

Init == FsIdle /\ MemoIdle /\ LineIdle

Next == CreateDirCall \/ WriteToFileCall \/ WriteToDestCall \/ MergeCall \/ MergeAgainCall

\* the merge of a source tree into a destination tree
Spec == Init /\ [][Next]_vars

---------------------------------------------------------------------------
(* createDir on its own: every call is recorded with what it returned *)

DirRecord(dirPath, existOk, denied, before, c) ==
  [called |-> TRUE, dirPath |-> dirPath, existOk |-> existOk, denied |-> denied,
   before |-> before, after |-> c.fs, ret |-> c.ret, raised |-> c.raised]

DirCalled(c) == Cardinality(DOMAIN c.after) <= MaxDirNodes /\ cd' = c /\ fs' = c.after

\* createDir(dirPath, existOk), with the call recorded in cd
CreateDirProbe ==
  /\ \E dirPath \in DirPaths, existOk \in BOOLEAN :
      \E denied \in Refusals(fs, dirPath) :
        DirCalled(DirRecord(dirPath, existOk, denied, fs, createDir(fs, dirPath, existOk, denied)))
  /\ UNCHANGED <<hist, memoVars, lineVars>>

\* writeToFile(fileName, content), to put regular files in createDir's way
WriteToFileProbe ==
  /\ \E fileName \in PathsUnder(DstRoot), content \in DstContents :
       /\ Built(writeToFile(fs, fileName, content).fs,
                writeToFile(fs, fileName, content).raised, MaxDirNodes)
       /\ fs' = writeToFile(fs, fileName, content).fs
  /\ UNCHANGED <<hist, cd, memoVars, lineVars>>

DirNext == CreateDirProbe \/ WriteToFileProbe

SpecDir == Init /\ [][DirNext]_vars

---------------------------------------------------------------------------
(* memoize: one wrapper, called with positional and keyword arguments *)

Digits == <<"1", "2", "3">>

TupleOps == <<"TUPLE1", "TUPLE2", "TUPLE3">>

\* the opcodes pickle writes for a small integer
PickleInt(n) == <<"BININT1", Digits[n]>>

\* ... for a short string
PickleStr(s) == <<"SHORT_BINUNICODE", s, "MEMOIZE">>

RECURSIVE PickleInts(_)
PickleInts(xs) == IF xs = <<>> THEN <<>> ELSE PickleInt(Head(xs)) \o PickleInts(Tail(xs))

\* ... for the items of a dict, in the order the dict holds them (its insertion order)
RECURSIVE PickleItems(_)
PickleItems(kw) ==
  IF kw = <<>> THEN <<>>
  ELSE PickleStr(Head(kw)[1]) \o PickleInt(Head(kw)[2]) \o PickleItems(Tail(kw))

\* pickle.dumps(args), args a tuple of small integers (the frame header,
\* which only repeats the length of what follows, is left out)
PickleTuple(args) ==
  <<"PROTO">>
    \o (IF args = <<>> THEN <<"EMPTY_TUPLE">>
        ELSE PickleInts(args) \o <<TupleOps[Len(args)], "MEMOIZE">>)
    \o <<"STOP">>

\* pickle.dumps(kwargs), kwargs a dict from names to small integers, given as
\* the sequence of its items in insertion order
PickleDict(kwargs) ==
  <<"PROTO", "EMPTY_DICT", "MEMOIZE">>
    \o (IF kwargs = <<>> THEN <<>>
        ELSE IF Len(kwargs) = 1 THEN PickleItems(kwargs) \o <<"SETITEM">>
        ELSE <<"MARK">> \o PickleItems(kwargs) \o <<"SETITEMS">>)
    \o <<"STOP">>

\* key = (pickle.dumps(args), pickle.dumps(kwargs))
Key(args, kwargs) == <<PickleTuple(args), PickleDict(kwargs)>>

\* the positional arguments of a call
ArgTuples == {<<>>, <<1, 2>>, <<2, 1>>}

\* the keyword arguments of a call, in the order the caller wrote them
KwArgs == {<<>>, <<<<"a", 1>>>>, <<<<"a", 1>>, <<"b", 2>>>>, <<<<"b", 2>>, <<"a", 1>>>>}

\* what func returns: it need not be a function of its arguments (it may
\* count its calls); the values as Python writes them
RetVals == {"None", "0", "7"}

\* the record of a call of the wrapper; invoked: func was called
MemoRecord(args, kwargs, invoked, ret) ==
  [args |-> args, kwargs |-> kwargs, invoked |-> invoked, ret |-> ret]

\* wrapper(*args, **kwargs), key in cache
WrapperHit ==
  /\ Len(mlog) < MaxCalls
  /\ \E args \in ArgTuples, kwargs \in KwArgs :
       /\ Key(args, kwargs) \in DOMAIN cache
       /\ mlog' = Append(mlog, MemoRecord(args, kwargs, FALSE, cache[Key(args, kwargs)]))
  /\ UNCHANGED <<cache, fsVars, lineVars>>

\* wrapper(*args, **kwargs), key not in cache: func is called and returns value
WrapperMiss ==
  /\ Len(mlog) < MaxCalls
  /\ \E args \in ArgTuples, kwargs \in KwArgs, value \in RetVals :
       /\ Key(args, kwargs) \notin DOMAIN cache
       /\ cache' = Put(cache, Key(args, kwargs), value)
       /\ mlog' = Append(mlog, MemoRecord(args, kwargs, TRUE, value))
  /\ UNCHANGED <<fsVars, lineVars>>

MemoNext == WrapperHit \/ WrapperMiss

SpecMemo == Init /\ [][MemoNext]_vars

---------------------------------------------------------------------------
(* calcLineNum and its three globals *)

\* os.linesep
LINESEP == "\n"

Chars == {LINESEP, "c"}

RECURSIVE StringsOf(_)
StringsOf(n) ==
  IF n = 0 THEN {<<>>}
  ELSE StringsOf(n - 1) \cup {Append(s, c) : s \in StringsOf(n - 1), c \in Chars}

\* for i in range(from, pos): if s[i] == os.linesep: lastLineCount += 1
CountFrom(s, from, pos, count) ==
  count + Cardinality({i \in from..(pos - 1) : s[i + 1] = LINESEP})

\* the globals and the result after calcLineNum(s, pos)
LineResult(s, pos, from, count) ==
  [lastStr |-> s, lastPos |-> from, lastLineCount |-> CountFrom(s, from, pos, count)]

calcLineNum(s, pos) ==
  IF s # lastStr THEN LineResult(s, pos, 0, 1)
  ELSE LineResult(s, pos, lastPos, lastLineCount)

LineCalled(s, pos, r) ==
  /\ lastStr' = r.lastStr
  /\ lastPos' = r.lastPos
  /\ lastLineCount' = r.lastLineCount
  /\ llog' = Append(llog, [s |-> s, pos |-> pos, ret |-> r.lastLineCount])

\* calcLineNum(s, pos) with 0 <= pos <= len(s)
CalcLineNumCall ==
  /\ Len(llog) < MaxLineCalls
  /\ \E s \in StringsOf(MaxStrLen) : \E pos \in 0..Len(s) : LineCalled(s, pos, calcLineNum(s, pos))
  /\ UNCHANGED <<fsVars, memoVars>>

LineNext == CalcLineNumCall

SpecLine == Init /\ [][LineNext]_vars

---------------------------------------------------------------------------
(* The claims about prepareDestinationDirectory, over the recorded calls *)

Calls == 1..Len(hist)

\* the source and the destination root of a recorded call, as the kernel resolves them
SrcOf(h) == Resolve(h.src)
DstOf(h) == Resolve(h.dst)

\* the regular files strictly under r
FilesUnder(f, r) == {q \in DOMAIN f : IsPrefix(r, q) /\ q # r /\ f[q] # DIR}

\* the tree at r with its paths taken relative to r
RelTree(f, r) ==
  [q \in {Slice(x, Len(r)) : x \in {y \in DOMAIN f : IsPrefix(r, y)}} |-> f[r \o q]]

\* the counterpart under the destination of the source entry q
Counterpart(h, q) == DstOf(h) \o Slice(q, Len(SrcOf(h)))

\* C1: every file under destDir before a merge is still there after it, with
\* the content it had
C1_NonOverwrite ==
  \A i \in Calls :
    \A q \in FilesUnder(hist[i].before, DstOf(hist[i])) :
      q \in DOMAIN hist[i].after /\ hist[i].after[q] = hist[i].before[q]

\* C2: after a merge that completed, every file under srcDir has a counterpart
\* at the same relative path under destDir, with the source's content where the
\* merge created it
C2_Completeness ==
  \A i \in Calls :
    ~hist[i].raised =>
      \A q \in FilesUnder(hist[i].before, SrcOf(hist[i])) :
        /\ IsFileAt(hist[i].after, Counterpart(hist[i], q))
        /\ Counterpart(hist[i], q) \notin DOMAIN hist[i].before
             => hist[i].after[Counterpart(hist[i], q)] = hist[i].before[q]

\* C5: the second of two merges in a row leaves the destination tree as the
\* first left it
C5_Idempotence ==
  Len(hist) = 2 =>
    RelTree(hist[2].after, DstOf(hist[2])) = RelTree(hist[1].after, DstOf(hist[1]))

\* C6: a merge into an empty (or absent, hence created) destination leaves
\* there exactly the files and subdirectories of the source, at the same
\* relative paths with the same content
C6_BulkCopy ==
  \A i \in Calls :
    (hist[i].mode = "bulk" /\ ~hist[i].raised) =>
      RelTree(hist[i].after, DstOf(hist[i])) = RelTree(hist[i].before, SrcOf(hist[i]))

\* C7: a merge in which some copy failed does not return normally: the
\* failure reaches the caller
C7_CopyFailurePropagates == \A i \in Calls : hist[i].failed => hist[i].raised

\* the paths the selective merge of call h enumerates
Enumerated(h) ==
  LET paths == getAllFilePaths(h.before, getAbolutePath(h.src), h.reverse)
  IN {paths[k] : k \in 1..Len(paths)}

\* the relative path of e is relative, and joined back onto the source root it names e
NamesEntry(absSrcDirPath, e, rel) ==
  ~IsAbs(rel) /\ rel # <<>> /\ Resolve(Join(absSrcDirPath, rel)) = Resolve(e)

\* C9: in the selective merge the relative path derived for every enumerated
\* path is that entry's path relative to the source root, whatever the spelling
\* of the source path
C9_RelativeEntry ==
  \A i \in Calls :
    hist[i].mode = "selective" =>
      \A e \in Enumerated(hist[i]) :
        NamesEntry(getAbolutePath(hist[i].src), e,
                   RelFilePath(getAbolutePath(hist[i].src), e))

---------------------------------------------------------------------------
(* The claim about createDir, over the recorded call *)

\* something that is no directory stands where createDir must pass
Blocked(f, r) == \E q \in Prefixes(r) : IsFileAt(f, q)

\* the filesystem with the directory r and its missing parents made
WithPath(f, r) ==
  [q \in DOMAIN f \cup Prefixes(r) |-> IF q \in DOMAIN f THEN f[q] ELSE DIR]

\* the call created the directory with its parents and returned its absolute path
Created(c, r) == c.ret = getAbolutePath(c.dirPath) /\ c.after = WithPath(c.before, r)

\* the call changed nothing and returned v
NoOp(c, v) == c.ret = v /\ c.after = c.before

\* createDir's contract where the directory does not exist yet
WhenAbsent(c, r) ==
  IF Blocked(c.before, r) \/ c.denied THEN NoOp(c, None) ELSE Created(c, r)

\* C8 as stated: createDir never raises; an existing directory is a no-op
\* success returning the absolute path; a failed creation returns None; otherwise
\* the directory is created with its missing parents and its absolute path returned
C8_CreateDirAsStated ==
  cd.called =>
    /\ ~cd.raised
    /\ IF IsDirAt(cd.before, Resolve(cd.dirPath))
       THEN NoOp(cd, getAbolutePath(cd.dirPath))
       ELSE WhenAbsent(cd, Resolve(cd.dirPath))

\* C8 amended: the same, except that an existing directory is a no-op success
\* only with existOk true; with existOk false the call returns None
C8_CreateDir ==
  cd.called =>
    /\ ~cd.raised
    /\ IF IsDirAt(cd.before, Resolve(cd.dirPath))
       THEN NoOp(cd, IF cd.existOk THEN getAbolutePath(cd.dirPath) ELSE None)
       ELSE WhenAbsent(cd, Resolve(cd.dirPath))

\* createDir was called with existOk false on a directory that exists, and returned None
C8_Witness ==
  /\ cd.called
  /\ IsDirAt(cd.before, Resolve(cd.dirPath))
  /\ ~cd.existOk
  /\ cd.ret = None

---------------------------------------------------------------------------
(* The claims about memoize, over the recorded calls *)

\* the dict a call's keyword arguments make
AsDict(kwargs) == {kwargs[k] : k \in 1..Len(kwargs)}

\* two calls with structurally equal argument sets
SameArgs(c, d) == c.args = d.args /\ AsDict(c.kwargs) = AsDict(d.kwargs)

\* the first call with the argument set of call j
First(j) == CHOOSE i \in 1..j : SameArgs(mlog[i], mlog[j]) /\ \A k \in 1..(i - 1) : ~SameArgs(mlog[k], mlog[j])

\* C3: func is invoked only on the first call with an argument set; every later
\* call with an equal argument set returns what the first returned and does not
\* invoke func
C3_MemoizationCorrectness ==
  \A j \in 1..Len(mlog) :
    /\ mlog[j].invoked <=> First(j) = j
    /\ mlog[j].ret = mlog[First(j)].ret

IsCall(c, args, kwargs) == c.args = args /\ c.kwargs = kwargs

\* call j is the first call of (args, kwargs) on the wrapper
FirstOf(j, args, kwargs) ==
  IsCall(mlog[j], args, kwargs) /\ \A k \in 1..(j - 1) : ~IsCall(mlog[k], args, kwargs)

\* C4: (1, 2) and (2, 1) are distinct keys, each invoking func on its first
\* call; (a=1, b=2) and (b=2, a=1) are one key, func being invoked for the
\* first of them only
C4_KeyDistinctness ==
  \A i, j \in 1..Len(mlog) :
    /\ (FirstOf(i, <<1, 2>>, <<>>) /\ FirstOf(j, <<2, 1>>, <<>>))
         => mlog[i].invoked /\ mlog[j].invoked
    /\ (i < j /\ IsCall(mlog[i], <<>>, <<<<"a", 1>>, <<"b", 2>>>>)
              /\ IsCall(mlog[j], <<>>, <<<<"b", 2>>, <<"a", 1>>>>))
         => ~mlog[j].invoked

---------------------------------------------------------------------------
(* The claim about calcLineNum, over the recorded calls *)

\* 1 plus the number of line separators in s[0:pos]
LineOf(s, pos) == 1 + Cardinality({k \in 1..pos : s[k] = LINESEP})

\* C10: every call of calcLineNum(s, pos) returns the line number of pos in s,
\* whatever calls were made before it
C10_LineNumber == \A i \in 1..Len(llog) : llog[i].ret = LineOf(llog[i].s, llog[i].pos)

===========================================================================
